---- MODULE Spec2Model ----
(***************************************************************************)
(* Model of .github/scripts/generateDocumentationIndex.py: IndexGenerator  *)
(* walks a directory tree top-down, filters each directory's listing and   *)
(* appends headings and links to a text buffer that is finally written to  *)
(* README.md inside the root directory.                                    *)
(*                                                                         *)
(* Representation.  A file or directory name is a sequence of one-character*)
(* strings.  A path string is represented by the sequence of its segments  *)
(* (names hold no path separator, so str.split(os.sep) and '/'.join are    *)
(* the two directions of that correspondence).  The text buffer is the     *)
(* sequence of its lines; a heading line records its number of '#' and its *)
(* text, a link line its title and its target.                             *)
(***************************************************************************)
EXTENDS Integers, Sequences, FiniteSets, TLC

VARIABLES
  rootExists,   \* os.path.exists(rootDirectory)
  tree,         \* the directory tree below the root: [dirs, files]
  outputFile,   \* what README.md in the root holds on disk (NoFile if absent)
  previous,     \* history: what README.md held before the last write
  stdout,       \* messages printed on standard output
  stderr,       \* messages printed on standard error
  exitStatus,   \* process exit status (NotExited while running)
  pc,           \* position of the process in __main__ / generate
  run,          \* which run of the script this is (1 or 2)
  contents,     \* self.contents, as a sequence of lines
  printed,      \* self.printed
  headed,       \* history: <<key, line index>> of every heading emitted by _addDirectoryHeadings
  stack,        \* os.walk: directories still to be visited, next one first
  directory,    \* loop variable of generate: the directory last yielded
  files         \* loop variable of generate: its file list after filtering

vars == <<rootExists, tree, outputFile, previous, stdout, stderr, exitStatus,
          pc, run, contents, printed, headed, stack, directory, files>>

----------------------------------------------------------------------------
(* Bounds of the model *)

\* most entries (directories and files together) the tree below the root holds
MaxEntries == 5

----------------------------------------------------------------------------
(* Names *)

Str_a == <<"a">>
Str_b == <<"b">>
Str_git == <<".", "g", "i", "t">>
Str_github == <<".", "g", "i", "t", "h", "u", "b">>
Str_md == <<".", "m", "d">>
Str_README == <<"R", "E", "A", "D", "M", "E", ".", "m", "d">>
Str_dot == <<".">>

DirNames == {Str_a, Str_b, Str_git, Str_github}

FileNames == { <<"a", ".", "m", "d">>,
               <<"B", ".", "m", "d">>,
               Str_README,
               <<"a", "m", "d">> }

\* Unicode code points of the characters in use; str comparison orders by them.
Ord(c) ==
  CASE c = "." -> 46
    [] c = "A" -> 65
    [] c = "B" -> 66
    [] c = "D" -> 68
    [] c = "E" -> 69
    [] c = "M" -> 77
    [] c = "R" -> 82
    [] c = "a" -> 97
    [] c = "b" -> 98
    [] c = "d" -> 100
    [] c = "g" -> 103
    [] c = "h" -> 104
    [] c = "i" -> 105
    [] c = "m" -> 109
    [] c = "t" -> 116
    [] c = "u" -> 117

\* s < t for Python str: lexicographic by code point, a proper prefix is smaller.
RECURSIVE StrLess(_, _)
StrLess(s, t) ==
  IF t = <<>> THEN FALSE
  ELSE IF s = <<>> THEN TRUE
  ELSE IF Ord(Head(s)) # Ord(Head(t)) THEN Ord(Head(s)) < Ord(Head(t))
  ELSE StrLess(Tail(s), Tail(t))

\* str.endswith
EndsWith(s, suffix) ==
  /\ Len(s) >= Len(suffix)
  /\ SubSeq(s, Len(s) - Len(suffix) + 1, Len(s)) = suffix

\* os.path.splitext(name)[0]: cut at the last dot, unless only dots precede it.
SplitextRoot(name) ==
  LET dots == {i \in 1..Len(name) :
                 /\ name[i] = "."
                 /\ \E j \in 1..(i-1) : name[j] # "."}
  IN IF dots = {} THEN name
     ELSE SubSeq(name, 1, (CHOOSE i \in dots : \A k \in dots : k <= i) - 1)

\* variant of Sorted: the list is iterated as listed, without sorted()
Sorted_AsListed(s) == s

\* sorted(list) for a list of str
RECURSIVE Insert(_, _)
Insert(x, s) ==
  IF s = <<>> THEN <<x>>
  ELSE IF StrLess(x, Head(s)) THEN <<x>> \o s
  ELSE <<Head(s)>> \o Insert(x, Tail(s))

RECURSIVE Sorted(_)
Sorted(s) == IF s = <<>> THEN <<>> ELSE Insert(Head(s), Sorted(Tail(s)))

\* every order in which a directory listing can enumerate the set S
RECURSIVE Listings(_)
Listings(S) ==
  IF S = {} THEN {<<>>}
  ELSE UNION {{<<x>> \o l : l \in Listings(S \ {x})} : x \in S}

IsPrefix(p, q) == Len(p) <= Len(q) /\ SubSeq(q, 1, Len(p)) = p

----------------------------------------------------------------------------
(* The file system *)

\* rootDirectory = os.path.abspath(args.directory)
rootDirectory == <<<<"s", "r", "v">>, <<"d", "o", "c", "s">>>>

NoFile == "NoFile"
NotExited == "NotExited"

\* earlier content of a README.md that the tree already holds
StaleContent == <<[kind |-> "stale"]>>

\* the sets of at most n directories (root-relative paths) a tree can consist of:
\* closed under parent; a directory named '.git' or '.github' holds files but
\* no directories of its own
RECURSIVE DirShapes(_)
DirShapes(n) ==
  IF n = 0 THEN {{}}
  ELSE LET smaller == DirShapes(n - 1)
       IN smaller \cup
          UNION {{D \cup {Append(p, x)} :
                     p \in {q \in D \cup {<<>>} :
                              \A k \in 1..Len(q) : q[k] \notin {Str_git, Str_github}},
                     x \in DirNames}
                 : D \in smaller}

\* the subsets of S with at most k elements
RECURSIVE SubsetsUpTo(_, _)
SubsetsUpTo(S, k) ==
  IF k = 0 THEN {{}}
  ELSE LET smaller == SubsetsUpTo(S, k - 1)
       IN smaller \cup UNION {{T \cup {s} : s \in S} : T \in smaller}

\* the files a tree with directories D can hold
Slots(D) == {[dir |-> p, name |-> n] : p \in D \cup {<<>>}, n \in FileNames}

\* what os.scandir finds in the directory with root-relative path p
SubdirsOf(p) == {d[Len(d)] : d \in {e \in tree.dirs : Len(e) = Len(p) + 1 /\ IsPrefix(p, e)}}
FilesOf(p) == {f.name : f \in {g \in tree.files : g.dir = p}}

\* os.path.relpath(directory, rootDirectory), as segments; '.' for the root itself
Relpath(dir, root) ==
  IF dir = root THEN <<Str_dot>>
  ELSE SubSeq(dir, Len(root) + 1, Len(dir))

\* os.path.basename(os.path.normpath(path))
Basename(path) == IF path = <<>> THEN <<>> ELSE path[Len(path)]

----------------------------------------------------------------------------
(* IndexGenerator *)

TitleLine == [kind |-> "heading", level |-> 1, text |-> Basename(rootDirectory)]
BlankLine == [kind |-> "blank"]
Footer == <<BlankLine, [kind |-> "rule"], BlankLine, [kind |-> "note"]>>
ErrorMessage == [kind |-> "error", directory |-> rootDirectory]

\* _filterDirectory, first comprehension: subdirectory not in ['.git', '.github']
KeepSubdirectory(subdirectory) == subdirectory \notin {Str_git, Str_github}

\* variant of KeepFile: the test file != 'README.md' is missing
KeepFile_NoReadmeTest(file) == EndsWith(file, Str_md)

\* _filterDirectory, second comprehension: file.endswith('.md') and file != 'README.md'
KeepFile(file) == EndsWith(file, Str_md) /\ file # Str_README

RECURSIVE FilterSubdirectories(_)
FilterSubdirectories(s) ==
  IF s = <<>> THEN <<>>
  ELSE IF KeepSubdirectory(Head(s)) THEN <<Head(s)>> \o FilterSubdirectories(Tail(s))
  ELSE FilterSubdirectories(Tail(s))

RECURSIVE FilterFiles(_)
FilterFiles(s) ==
  IF s = <<>> THEN <<>>
  ELSE IF KeepFile(Head(s)) THEN <<Head(s)>> \o FilterFiles(Tail(s))
  ELSE FilterFiles(Tail(s))

\* variant of FilterDirectory: returns True instead of bool(files)
FilterDirectory_AlwaysTrue(subdirectories, fileList) ==
  [subdirectories |-> FilterSubdirectories(subdirectories),
   files |-> FilterFiles(fileList),
   result |-> TRUE]

\* _filterDirectory: the pruned subdirectory list, the retained files, bool(files)
FilterDirectory(subdirectories, fileList) ==
  [subdirectories |-> FilterSubdirectories(subdirectories),
   files |-> FilterFiles(fileList),
   result |-> FilterFiles(fileList) # <<>>]

\* _generateLink; file is [dir, name], the joined path of the file
GenerateLink(file) ==
  LET name  == file.name
      title == SplitextRoot(name)
      link  == file
  IN [kind |-> "link", title |-> title, target |-> link]

\* variant of HeadingsFrom: the test key not in self.printed is missing
RECURSIVE HeadingsFrom_NoPrintedTest(_, _, _)
HeadingsFrom_NoPrintedTest(st, parts, i) ==
  IF i >= Len(parts) THEN st
  ELSE HeadingsFrom_NoPrintedTest(
         [contents |-> st.contents \o
             <<BlankLine, [kind |-> "heading", level |-> i + 2, text |-> parts[i + 1]]>>,
          printed |-> st.printed \cup {SubSeq(parts, 1, i + 1)},
          headed |-> Append(st.headed, <<SubSeq(parts, 1, i + 1), Len(st.contents) + 2>>)],
         parts, i + 1)

\* variant of HeadingsFrom: the heading level is '#' * (i + 1)
RECURSIVE HeadingsFrom_LevelOffByOne(_, _, _)
HeadingsFrom_LevelOffByOne(st, parts, i) ==
  IF i >= Len(parts) THEN st
  ELSE IF SubSeq(parts, 1, i + 1) \notin st.printed
       THEN HeadingsFrom_LevelOffByOne(
              [contents |-> st.contents \o
                  <<BlankLine, [kind |-> "heading", level |-> i + 1, text |-> parts[i + 1]]>>,
               printed |-> st.printed \cup {SubSeq(parts, 1, i + 1)},
               headed |-> Append(st.headed, <<SubSeq(parts, 1, i + 1), Len(st.contents) + 2>>)],
              parts, i + 1)
       ELSE HeadingsFrom_LevelOffByOne(st, parts, i + 1)

\* variant of HeadingsFrom: the blank line follows the heading, f'{headingLevel} {part}\n\n'
RECURSIVE HeadingsFrom_BlankAfter(_, _, _)
HeadingsFrom_BlankAfter(st, parts, i) ==
  IF i >= Len(parts) THEN st
  ELSE IF SubSeq(parts, 1, i + 1) \notin st.printed
       THEN HeadingsFrom_BlankAfter(
              [contents |-> st.contents \o
                  <<[kind |-> "heading", level |-> i + 2, text |-> parts[i + 1]], BlankLine>>,
               printed |-> st.printed \cup {SubSeq(parts, 1, i + 1)},
               headed |-> Append(st.headed, <<SubSeq(parts, 1, i + 1), Len(st.contents) + 1>>)],
              parts, i + 1)
       ELSE HeadingsFrom_BlankAfter(st, parts, i + 1)

\* _addDirectoryHeadings on the generator state st = [contents, printed, headed];
\* HeadingsFrom is its loop from index i (0-based, as enumerate counts).
RECURSIVE HeadingsFrom(_, _, _)
HeadingsFrom(st, parts, i) ==
  IF i >= Len(parts) THEN st
  ELSE LET part == parts[i + 1]
           key  == SubSeq(parts, 1, i + 1)
       IN IF key \notin st.printed
          THEN HeadingsFrom(
                 [contents |-> st.contents \o
                     <<BlankLine, [kind |-> "heading", level |-> i + 2, text |-> part]>>,
                  printed |-> st.printed \cup {key},
                  headed |-> Append(st.headed, <<key, Len(st.contents) + 2>>)],
                 parts, i + 1)
          ELSE HeadingsFrom(st, parts, i + 1)

AddDirectoryHeadings(st, relativeDirectory) ==
  HeadingsFrom(st, relativeDirectory, 0)

\* the loop of _processDirectory over sorted(files)
RECURSIVE LinksOf(_, _)
LinksOf(relativeDirectory, sortedFiles) ==
  IF sortedFiles = <<>> THEN <<>>
  ELSE LET file == IF relativeDirectory # <<Str_dot>>
                   THEN [dir |-> relativeDirectory, name |-> Head(sortedFiles)]
                   ELSE [dir |-> <<>>, name |-> Head(sortedFiles)]
       IN <<GenerateLink(file)>> \o LinksOf(relativeDirectory, Tail(sortedFiles))

\* variant of ProcessDirectory: the links are appended before the headings
ProcessDirectory_LinksFirst(st, dir, fileList) ==
  LET relativeDirectory == Relpath(dir, rootDirectory)
      st1 == [st EXCEPT !.contents = @ \o LinksOf(relativeDirectory, Sorted(fileList))]
  IN IF relativeDirectory # <<Str_dot>>
     THEN AddDirectoryHeadings(st1, relativeDirectory)
     ELSE st1

\* _processDirectory
ProcessDirectory(st, dir, fileList) ==
  LET relativeDirectory == Relpath(dir, rootDirectory)
      st1 == IF relativeDirectory # <<Str_dot>>
             THEN AddDirectoryHeadings(st, relativeDirectory)
             ELSE st
  IN [st1 EXCEPT !.contents = @ \o LinksOf(relativeDirectory, Sorted(fileList))]

----------------------------------------------------------------------------
(* The process *)

Init ==
  /\ rootExists \in BOOLEAN
  /\ IF rootExists
     THEN \E D \in DirShapes(MaxEntries) :
            \E F \in SubsetsUpTo(Slots(D), MaxEntries - Cardinality(D)) :
              tree = [dirs |-> D, files |-> F]
     ELSE tree = [dirs |-> {}, files |-> {}]
  /\ outputFile = IF [dir |-> <<>>, name |-> Str_README] \in tree.files
                  THEN StaleContent ELSE NoFile
  /\ previous = outputFile
  /\ stdout = <<>>
  /\ stderr = <<>>
  /\ exitStatus = NotExited
  /\ pc = "main"
  /\ run = 1
  /\ contents = <<>>
  /\ printed = {}
  /\ headed = <<>>
  /\ stack = <<>>
  /\ directory = <<>>
  /\ files = <<>>

\* variant of Construct: __init__ without the os.path.exists test
Construct_NoExistsTest ==
  /\ pc = "main"
  /\ contents' = <<TitleLine>>
  /\ printed' = {}
  /\ headed' = <<>>
  /\ pc' = "constructed"
  /\ UNCHANGED <<rootExists, tree, outputFile, previous, stdout, stderr, exitStatus,
                 run, stack, directory, files>>

\* __main__ up to the constructor call, and IndexGenerator.__init__
Construct ==
  /\ pc = "main"
  /\ IF ~rootExists
     THEN /\ stdout' = Append(stdout, ErrorMessage)
          /\ exitStatus' = 1
          /\ pc' = "exited"
          /\ UNCHANGED <<contents, printed, headed>>
     ELSE /\ contents' = <<TitleLine>>
          /\ printed' = {}
          /\ headed' = <<>>
          /\ pc' = "constructed"
          /\ UNCHANGED <<stdout, exitStatus>>
  /\ UNCHANGED <<rootExists, tree, outputFile, previous, stderr, run, stack, directory, files>>

\* os.walk(self.rootDirectory): a fresh walk has only the root to visit
Pending == IF pc = "constructed" THEN <<rootDirectory>> ELSE stack

\* generate, one iteration of its loop (the first one starts the walk): os.walk
\* yields the next directory with its listing, the body filters and processes
\* it, os.walk then descends into the subdirectories the body left in the list
WalkStep ==
  /\ pc \in {"constructed", "walking"}
  /\ Pending # <<>>
  /\ LET top == Head(Pending)
         rel == SubSeq(top, Len(rootDirectory) + 1, Len(top))
     IN \E subdirectories \in Listings(SubdirsOf(rel)) :
          \E fileList \in Listings(FilesOf(rel)) :
            LET filtered == FilterDirectory(subdirectories, fileList)
                st  == [contents |-> contents, printed |-> printed, headed |-> headed]
                st1 == IF filtered.result
                       THEN ProcessDirectory(st, top, filtered.files)
                       ELSE st
            IN /\ directory' = top
               /\ files' = filtered.files
               /\ contents' = st1.contents
               /\ printed' = st1.printed
               /\ headed' = st1.headed
               /\ stack' = [i \in 1..Len(filtered.subdirectories) |->
                              Append(top, filtered.subdirectories[i])] \o Tail(Pending)
  /\ pc' = "walking"
  /\ UNCHANGED <<rootExists, tree, outputFile, previous, stdout, stderr, exitStatus, run>>

\* _writeToFile, reached when os.walk is exhausted; the process then ends
WriteToFile ==
  /\ pc = "walking"
  /\ stack = <<>>
  /\ previous' = outputFile
  /\ outputFile' = contents \o Footer
  /\ tree' = [tree EXCEPT !.files = @ \cup {[dir |-> <<>>, name |-> Str_README]}]
  /\ exitStatus' = 0
  /\ pc' = "done"
  /\ UNCHANGED <<rootExists, stdout, stderr, run, contents, printed, headed,
                 stack, directory, files>>

\* the script is started a second time on the tree the first run left
Rerun ==
  /\ pc = "done"
  /\ run = 1
  /\ run' = 2
  /\ pc' = "main"
  /\ exitStatus' = NotExited
  /\ contents' = <<>>
  /\ printed' = {}
  /\ headed' = <<>>
  /\ stack' = <<>>
  /\ directory' = <<>>
  /\ files' = <<>>
  /\ UNCHANGED <<rootExists, tree, outputFile, previous, stdout, stderr>>

Next == Construct \/ WalkStep \/ WriteToFile

Spec == Init /\ [][Next]_vars

NextTwice == Construct \/ WalkStep \/ WriteToFile \/ Rerun

SpecTwice == Init /\ [][NextTwice]_vars

----------------------------------------------------------------------------
(* Vocabulary of the properties *)

Started == pc \in {"constructed", "walking", "done"}

LinkLines(buf) == {i \in 1..Len(buf) : buf[i].kind = "link"}
HeadingLines(buf) == {i \in 1..Len(buf) : buf[i].kind = "heading"}

\* the root-relative directory a link line points into, and the file name it names
DirOfLink(buf, i) == buf[i].target.dir
NameOfLink(buf, i) == buf[i].target.name

\* heading key and line of the h-th heading emitted
KeyOf(h) == headed[h][1]
LineOf(h) == headed[h][2]

\* eligible files of the tree, stated on the tree alone
EligibleFiles ==
  {f \in tree.files :
     /\ Len(f.name) >= 3
     /\ f.name[Len(f.name) - 2] = "."
     /\ f.name[Len(f.name) - 1] = "m"
     /\ f.name[Len(f.name)] = "d"
     /\ f.name # <<"R", "E", "A", "D", "M", "E", ".", "m", "d">>
     /\ \A k \in 1..Len(f.dir) :
          /\ f.dir[k] # <<".", "g", "i", "t">>
          /\ f.dir[k] # <<".", "g", "i", "t", "h", "u", "b">>}

\* s sorts strictly before t: at the first position where they differ s has the
\* smaller code point, or s is a proper prefix of t
Precedes(s, t) ==
  \/ /\ Len(s) < Len(t)
     /\ \A k \in 1..Len(s) : s[k] = t[k]
  \/ \E k \in 1..Len(s) :
       /\ k <= Len(t)
       /\ \A m \in 1..(k - 1) : s[m] = t[m]
       /\ Ord(s[k]) < Ord(t[k])

----------------------------------------------------------------------------
(* Properties *)

\* C1: after generate() on an existing root, the written index holds exactly one
\* link for every eligible file (name ends with '.md', is not 'README.md', no
\* '.git' or '.github' directory on its path) and no link for any other file.
C1_LinksAreExactlyEligibleFiles ==
  pc = "done" =>
    /\ \A f \in EligibleFiles :
         Cardinality({i \in LinkLines(outputFile) : outputFile[i].target = f}) = 1
    /\ \A i \in LinkLines(outputFile) : outputFile[i].target \in EligibleFiles

\* reached: an index was written for a tree with an eligible file two levels
\* down whose parent directory holds no eligible file, and with a Markdown file
\* below an excluded directory
C1_Witness ==
  /\ pc = "done"
  /\ \E f \in EligibleFiles :
       /\ Len(f.dir) = 2
       /\ \A g \in EligibleFiles : g.dir # SubSeq(f.dir, 1, 1)
  /\ \E f \in tree.files \ EligibleFiles :
       /\ f.dir # <<>>
       /\ f.name = <<"a", ".", "m", "d">>

\* C2: in every state of the traversal no heading key has been emitted twice,
\* and every path that is the path or an ancestor of a processed directory has
\* its one heading, emitted when the first directory (in traversal order) below
\* that path was processed: it precedes that directory's links with no link of
\* another directory in between.
C2_HeadingOncePerKey ==
  /\ \A g, h \in 1..Len(headed) : g # h => KeyOf(g) # KeyOf(h)
  /\ \A j \in LinkLines(contents) :
       \A n \in 1..Len(DirOfLink(contents, j)) :
         LET key   == SubSeq(DirOfLink(contents, j), 1, n)
             under == {l \in LinkLines(contents) : IsPrefix(key, DirOfLink(contents, l))}
             first == CHOOSE l \in under : \A m \in under : l <= m
         IN \E h \in 1..Len(headed) :
              /\ KeyOf(h) = key
              /\ LineOf(h) < first
              /\ \A m \in (LineOf(h) + 1)..(first - 1) : contents[m].kind # "link"

\* reached: the walk is over and two different file-bearing directories lie
\* strictly below one directory whose heading was emitted
C2_Witness ==
  /\ pc = "done"
  /\ \E h \in 1..Len(headed) :
       \E i, j \in LinkLines(contents) :
         /\ DirOfLink(contents, i) # DirOfLink(contents, j)
         /\ DirOfLink(contents, i) # KeyOf(h)
         /\ DirOfLink(contents, j) # KeyOf(h)
         /\ IsPrefix(KeyOf(h), DirOfLink(contents, i))
         /\ IsPrefix(KeyOf(h), DirOfLink(contents, j))

\* C3: the heading emitted for a directory at depth d below the root has d+1
\* '#' and carries the directory's last path segment; the first line is the
\* title, the only level-1 heading, and carries the root's base name.
C3_HeadingLevelIsDepthPlusOne ==
  Started =>
    /\ contents[1] = [kind |-> "heading", level |-> 1, text |-> <<"d", "o", "c", "s">>]
    /\ \A i \in HeadingLines(contents) :
         /\ contents[i].level = 1 => i = 1
         /\ i # 1 => \E h \in 1..Len(headed) : LineOf(h) = i
    /\ \A h \in 1..Len(headed) :
         /\ contents[LineOf(h)].kind = "heading"
         /\ contents[LineOf(h)].level = Len(KeyOf(h)) + 1
         /\ contents[LineOf(h)].text = KeyOf(h)[Len(KeyOf(h))]

\* reached: headings of depth 1, 2 and 3 have been emitted
C3_Witness ==
  /\ pc = "done"
  /\ \E h \in 1..Len(headed) : Len(KeyOf(h)) = 3 /\ contents[LineOf(h)].level = 4
  /\ \E h \in 1..Len(headed) : Len(KeyOf(h)) = 2
  /\ \E h \in 1..Len(headed) : Len(KeyOf(h)) = 1

\* C4: at every point of the traversal a directory's heading lies before every
\* link into that directory or below it and before the heading of every
\* descendant directory.
C4_HeadingPrecedesWhatIsBelow ==
  \A h \in 1..Len(headed) :
    /\ \A j \in LinkLines(contents) :
         IsPrefix(KeyOf(h), DirOfLink(contents, j)) => LineOf(h) < j
    /\ \A g \in 1..Len(headed) :
         (g # h /\ IsPrefix(KeyOf(h), KeyOf(g))) => LineOf(h) < LineOf(g)

\* reached: a heading with links of its own directory, a descendant's heading
\* and a link below that descendant
C4_Witness ==
  \E h, g \in 1..Len(headed) :
    /\ g # h
    /\ IsPrefix(KeyOf(h), KeyOf(g))
    /\ \E j \in LinkLines(contents) : DirOfLink(contents, j) = KeyOf(h)
    /\ \E j \in LinkLines(contents) : DirOfLink(contents, j) = KeyOf(g)

\* C5: when the root directory does not exist the process ends with status 1
\* in the constructor: generate() and the write are never reached and the
\* output file is neither created nor modified.
C5_MissingRootExitsOne ==
  ~rootExists =>
    /\ pc \in {"main", "exited"}
    /\ pc = "exited" => exitStatus = 1
    /\ pc = "main" => exitStatus = NotExited
    /\ outputFile = NoFile
    /\ tree.files = {}
    /\ contents = <<>>

\* reached: the process has exited on a missing root
C5_Witness == ~rootExists /\ pc = "exited" /\ exitStatus = 1

\* C6: when the root directory does not exist the error message is on standard
\* error and nothing is on standard output.
C6_ErrorOnStderr ==
  pc = "exited" => (stderr # <<>> /\ stdout = <<>>)

\* C7: two runs in succession on a tree unchanged but for the README.md the
\* first run wrote leave byte-identical output files, whatever order the walk
\* lists subdirectories and files in.
C7_SecondRunWritesSameBytes ==
  (run = 2 /\ pc = "done") => outputFile = previous

\* C8: the links of the files directly in a directory form one block right
\* after that directory's own heading (for the root, right after the title):
\* between the heading and any of these links there are only links of the same
\* directory.
C8_LinksFollowOwnHeading ==
  \A j \in LinkLines(contents) :
    LET d == DirOfLink(contents, j)
    IN IF d = <<>>
       THEN \A m \in 2..(j - 1) :
              contents[m].kind = "link" /\ DirOfLink(contents, m) = <<>>
       ELSE \E h \in 1..Len(headed) :
              /\ KeyOf(h) = d
              /\ LineOf(h) < j
              /\ \A m \in (LineOf(h) + 1)..(j - 1) :
                   contents[m].kind = "link" /\ DirOfLink(contents, m) = d

\* reached: the walk is over, the root has a link, and a subdirectory has two
C8_Witness ==
  /\ pc = "done"
  /\ \E j \in LinkLines(contents) : DirOfLink(contents, j) = <<>>
  /\ \E i, j \in LinkLines(contents) :
       i # j /\ DirOfLink(contents, i) # <<>>
             /\ DirOfLink(contents, i) = DirOfLink(contents, j)

\* C9: within the links of one directory the file names ascend in
\* lexicographic (code point) order, whatever order the walk listed them in.
C9_LinksSortedByName ==
  \A i, j \in LinkLines(contents) :
    (i < j /\ DirOfLink(contents, i) = DirOfLink(contents, j))
      => Precedes(NameOfLink(contents, i), NameOfLink(contents, j))

\* reached: the directory just processed was listed with its two eligible
\* files in descending order, and both links are in the buffer
C9_Witness ==
  /\ pc = "walking"
  /\ Len(files) = 2
  /\ Precedes(files[2], files[1])
  /\ \E i, j \in LinkLines(contents) :
       /\ i < j
       /\ NameOfLink(contents, i) = files[2]
       /\ NameOfLink(contents, j) = files[1]
       /\ DirOfLink(contents, i) = DirOfLink(contents, j)

\* C10: no empty section: every directory heading is for a directory that has
\* an eligible file in it or below it, and is followed, before the next heading
\* of equal or lower level, by a link below that directory; with no eligible
\* file at all the written index is the title and the footer.
C10_NoEmptySection ==
  /\ \A h \in 1..Len(headed) :
       /\ \E f \in EligibleFiles : IsPrefix(KeyOf(h), f.dir)
       /\ \E j \in LinkLines(contents) :
            /\ LineOf(h) < j
            /\ IsPrefix(KeyOf(h), DirOfLink(contents, j))
            /\ \A m \in (LineOf(h) + 1)..(j - 1) :
                 contents[m].kind = "heading" =>
                   contents[m].level > contents[LineOf(h)].level
  /\ \A i \in HeadingLines(contents) :
       i # 1 => \E h \in 1..Len(headed) : LineOf(h) = i
  /\ (pc = "done" /\ EligibleFiles = {}) =>
       outputFile = << [kind |-> "heading", level |-> 1, text |-> <<"d", "o", "c", "s">>],
                       [kind |-> "blank"], [kind |-> "rule"],
                       [kind |-> "blank"], [kind |-> "note"] >>

\* reached: an index with a section was written for a tree that also has a
\* visited directory with files but no eligible file in or below it
C10_Witness ==
  /\ pc = "done"
  /\ headed # <<>>
  /\ \E d \in tree.dirs :
       /\ \A k \in 1..Len(d) :
            d[k] \notin {<<".", "g", "i", "t">>, <<".", "g", "i", "t", "h", "u", "b">>}
       /\ \E f \in tree.files : f.dir = d
       /\ \A f \in EligibleFiles : ~IsPrefix(d, f.dir)

\* reached: an index was written for a tree with files and directories but no
\* eligible file
C10_WitnessEmpty ==
  /\ pc = "done"
  /\ EligibleFiles = {}
  /\ tree.dirs # {}
  /\ Cardinality(tree.files) > 1

====
